---------------------------- MODULE Spec2Model ----------------------------
(***************************************************************************)
(* Model of generate_reports.py: one invocation of main() requests an MWS  *)
(* orders report, polls for the generated report id, opens the sqlite      *)
(* database, fetches the report and writes one row per <Message>.  The     *)
(* database file outlives the process, so several invocations (runs) are   *)
(* modelled over the same store.                                           *)
(*                                                                         *)
(* The control flow is modelled as written.  Names the file leaves         *)
(* unresolved are read as their evident referent: Object as object,        *)
(* MWSError as the mws library's error class, request_id as the parameter  *)
(* report_request_id, cursor.commit() as a commit of the connection, the   *)
(* empty except body of _open_db as pass, and the call of _process_report  *)
(* in main as passing db_conn.                                             *)
(*                                                                         *)
(* The remote service and the storage engine are the environment: every    *)
(* remote call and every write draws its outcome from the outcomes the     *)
(* collaborator can produce.                                               *)
(***************************************************************************)
EXTENDS Integers, Sequences, FiniteSets, TLC

(* ------------------------------ bounds --------------------------------- *)
MaxRuns == 2        \* invocations of main() over the same database file
MaxMsgs == 2        \* <Message> elements in one report payload
MaxPolls == 5       \* status calls of one run (the code makes at most one)

(* ------------------------- program constants --------------------------- *)
RetryCheck == 3     \* the literal of "if retry_count == 3"

(* ------------------------------ domains -------------------------------- *)
None == "None"

\* Well-formed messages: two that share (order_id, sku) and differ in the
\* date, one that shares only the order id, one that shares nothing.
WellFormedMsgs ==
    { [order_id |-> "A-1", purchase_date |-> "2023-01-01", sku |-> "SKU1"],
      [order_id |-> "A-1", purchase_date |-> "2023-01-02", sku |-> "SKU1"],
      [order_id |-> "A-1", purchase_date |-> "2023-01-01", sku |-> "SKU2"],
      [order_id |-> "A-2", purchase_date |-> "2023-01-02", sku |-> "SKU2"] }

\* A message whose element is absent has None in that field (find() -> None).
MalformedMsgs ==
    { [order_id |-> None, purchase_date |-> "2023-01-01", sku |-> "SKU1"],
      [order_id |-> "A-1", purchase_date |-> None, sku |-> "SKU1"],
      [order_id |-> "A-1", purchase_date |-> "2023-01-01", sku |-> None] }
Messages == WellFormedMsgs \cup MalformedMsgs

SeqsUpTo(S, n) == UNION { [1..k -> S] : k \in 0..n }
Payloads == SeqsUpTo(Messages, MaxMsgs)

\* Outcomes of the three remote calls (mws raises MWSError for both errors).
MWSErrors == {"AUTH", "TRANSIENT"}
RequestOutcomes == {"OK"} \cup MWSErrors
Statuses == {"SUBMITTED", "IN_PROGRESS", "DONE", "CANCELLED"}
StatusOutcomes == Statuses \cup MWSErrors
FetchOutcomes == {"OK", "BAD_XML"} \cup MWSErrors
WriteOutcomes == {"OK", "FAULT_EXECUTE", "FAULT_COMMIT"}

Terminal == {"done", "exited", "crashed"}

VARIABLES
    pc,                 \* position of the running invocation of main()
    runs,               \* invocations started so far
    exit_code,          \* exit status of the process once pc \in Terminal
    report_request_id,  \* main: report_request_id
    report_id,          \* main: report_id
    retry_count,        \* _poll_for_report: retry_count
    db_open,            \* main: db_conn is an open sqlite connection
    table_exists,       \* mws.db holds the purchases table
    store,              \* committed rows of purchases, in insertion order
    payload,            \* messages of the fetched report (root.findall)
    idx,                \* position of the for loop of _process_report
    trace,              \* calls made by this run, with their outcomes
    run_start_store,    \* store when this run started
    prev_run            \* payload and resulting store of the previous run

vars == << pc, runs, exit_code, report_request_id, report_id, retry_count,
           db_open, table_exists, store, payload, idx, trace,
           run_start_store, prev_run >>

(* ------------------------------ helpers -------------------------------- *)
Ev(op, res) == [op |-> op, res |-> res]

Count(op) == Cardinality({ i \in DOMAIN trace : trace[i].op = op })

CountRes(op, res) ==
    Cardinality({ i \in DOMAIN trace : trace[i] = Ev(op, res) })

Last(s) == s[Len(s)]

\* Purchase.__init__: the row a message yields.
Purchase(m) ==
    [order_id |-> m.order_id, purchase_date |-> m.purchase_date, sku |-> m.sku]

\* message.find(...).text raises AttributeError when the element is absent.
ExtractFails(m) ==
    m.order_id = None \/ m.purchase_date = None \/ m.sku = None

\* cursor.execute('INSERT INTO purchases VALUES (?, ?, ?)'): a plain insert,
\* the table has no key or uniqueness constraint.
InsertRowFront(rows, row) == << row >> \o rows
InsertOrReplace(rows, row) ==
    IF \E i \in DOMAIN rows :
           rows[i].order_id = row.order_id /\ rows[i].sku = row.sku
    THEN [ i \in DOMAIN rows |->
             IF rows[i].order_id = row.order_id /\ rows[i].sku = row.sku
             THEN row ELSE rows[i] ]
    ELSE Append(rows, row)
InsertRow(rows, row) == Append(rows, row)

\* Purchase.write_to_db: insert then commit.  A fault in either statement
\* raises; the uncommitted insert is rolled back when the process dies.
write_to_db(rows, row, out) ==
    IF out = "OK" THEN InsertRow(rows, row) ELSE rows

\* main lines 144-147: the statement that runs after a stage returned.
StageAfterDbFirst(stage) ==
    CASE stage = "request" -> "open_db"
      [] stage = "open_db" -> "poll"
      [] stage = "poll" -> "fetch"
StageAfter(stage) ==
    CASE stage = "request" -> "poll"
      [] stage = "poll" -> "open_db"
      [] stage = "open_db" -> "fetch"

\* _request_report: except MWSError -> sys.exit(); otherwise return the id.
AfterRequestSwallow(out) == "poll"
AfterRequest(out) == IF out = "OK" THEN StageAfter("request") ELSE "exited"

\* _poll_for_report, the except branch: sleep and continue when
\* retry_count == 3, sys.exit() otherwise.
RetriesAlways(rc) == rc >= 1
RetriesFirst(rc) == rc = 1
Retries(rc) == rc = RetryCheck

\* _poll_for_report, the return statement: the response carries
\* GeneratedReportId only when the status is DONE; the subscript raises
\* KeyError otherwise.
ReturnReportIdLenient(status) ==
    IF status = "DONE" THEN [pc |-> "open_db", id |-> "RPT1"]
                       ELSE [pc |-> "open_db", id |-> None]
ReturnReportIdPolling(status) ==
    IF status = "DONE" THEN [pc |-> "open_db", id |-> "RPT1"]
                       ELSE [pc |-> "poll", id |-> None]
ReturnReportId(status) ==
    IF status = "DONE" THEN [pc |-> StageAfter("poll"), id |-> "RPT1"]
                       ELSE [pc |-> "crashed", id |-> None]

\* _open_db lines 53-60: CREATE TABLE raises OperationalError when the
\* table exists, which is caught; the rows are left alone either way.
create_table_uncaught(exists, rows) ==
    IF exists THEN [pc |-> "crashed", rows |-> rows, res |-> "EXISTS"]
              ELSE [pc |-> "fetch", rows |-> << >>, res |-> "CREATED"]
create_table(exists, rows) ==
    IF exists THEN [pc |-> StageAfter("open_db"), rows |-> rows, res |-> "EXISTS"]
              ELSE [pc |-> StageAfter("open_db"), rows |-> << >>, res |-> "CREATED"]

\* _process_report lines 119-126: except MWSError -> sys.exit(); a payload
\* that is not well-formed XML raises ParseError out of ET.fromstring.
AfterFetchRetry(out) ==
    IF out = "OK" THEN "persist"
    ELSE IF out = "BAD_XML" THEN "crashed"
    ELSE IF out = "TRANSIENT" THEN "fetch" ELSE "exited"
AfterFetch(out) ==
    IF out = "OK" THEN "persist"
    ELSE IF out = "BAD_XML" THEN "crashed" ELSE "exited"

\* sys.exit() without argument exits with status 0; an uncaught exception
\* exits with status 1; returning from main exits with status 0.
ExitCode(p) == IF p = "crashed" THEN 1 ELSE 0

(* ------------------------------- Init ---------------------------------- *)
NoRun == [valid |-> FALSE, payload |-> << >>, store |-> << >>]

Init ==
    /\ pc = "main"
    /\ runs = 1
    /\ exit_code = 0
    /\ report_request_id = None
    /\ report_id = None
    /\ retry_count = 0
    /\ db_open = FALSE
    /\ table_exists = FALSE
    /\ store = << >>
    /\ payload = << >>
    /\ idx = 1
    /\ trace = << >>
    /\ run_start_store = << >>
    /\ prev_run = NoRun

(* ------------------------------ actions -------------------------------- *)
\* A new process is started after the previous one ended; only mws.db
\* (table_exists, store) survives.
NewRun ==
    /\ pc \in Terminal
    /\ runs < MaxRuns
    /\ runs' = runs + 1
    /\ pc' = "main"
    /\ exit_code' = 0
    /\ report_request_id' = None
    /\ report_id' = None
    /\ retry_count' = 0
    /\ db_open' = FALSE
    /\ payload' = << >>
    /\ idx' = 1
    /\ trace' = << >>
    /\ run_start_store' = store
    /\ prev_run' = IF pc = "done"
                   THEN [valid |-> TRUE, payload |-> payload, store |-> store]
                   ELSE NoRun
    /\ UNCHANGED << table_exists, store >>

\* main line 142, _build_mws: os.environ[...] raises KeyError when a
\* credential is not set.
BuildMws ==
    /\ pc = "main"
    /\ \E env_ok \in BOOLEAN :
         /\ pc' = IF env_ok THEN "request" ELSE "crashed"
         /\ exit_code' = IF env_ok THEN exit_code ELSE ExitCode("crashed")
         /\ trace' = Append(trace, Ev("build_mws", IF env_ok THEN "OK" ELSE "KEYERROR"))
    /\ UNCHANGED << runs, report_request_id, report_id, retry_count, db_open,
                    table_exists, store, payload, idx, run_start_store, prev_run >>

\* _request_report: one call of mws_conn.request_report.
RequestReport ==
    /\ pc = "request"
    /\ \E out \in RequestOutcomes :
         /\ pc' = AfterRequest(out)
         /\ exit_code' = IF AfterRequest(out) \in Terminal
                         THEN ExitCode(AfterRequest(out)) ELSE exit_code
         /\ report_request_id' = IF out = "OK" THEN "REQ1" ELSE None
         /\ trace' = Append(trace, Ev("request_report", out))
    /\ UNCHANGED << runs, report_id, retry_count, db_open, table_exists, store,
                    payload, idx, run_start_store, prev_run >>

\* _poll_for_report: one iteration of the while loop, and the return
\* statement when the call did not raise.
PollForReport ==
    /\ pc = "poll"
    /\ Count("get_report_request_list") < MaxPolls
    /\ retry_count' = retry_count + 1
    /\ \E out \in StatusOutcomes :
         IF out \in MWSErrors
         THEN IF Retries(retry_count')
              THEN /\ trace' = trace \o << Ev("get_report_request_list", out),
                                           Ev("sleep", "OK") >>
                   /\ pc' = "poll"
                   /\ UNCHANGED << exit_code, report_id >>
              ELSE /\ trace' = Append(trace, Ev("get_report_request_list", out))
                   /\ pc' = "exited"
                   /\ exit_code' = ExitCode("exited")
                   /\ UNCHANGED report_id
         ELSE /\ trace' = Append(trace, Ev("get_report_request_list", out))
              /\ pc' = ReturnReportId(out).pc
              /\ report_id' = ReturnReportId(out).id
              /\ exit_code' = IF ReturnReportId(out).pc \in Terminal
                              THEN ExitCode(ReturnReportId(out).pc) ELSE exit_code
    /\ UNCHANGED << runs, report_request_id, db_open, table_exists, store,
                    payload, idx, run_start_store, prev_run >>

\* _open_db: connect, CREATE TABLE; "table already exists" is caught.
OpenDb ==
    /\ pc = "open_db"
    /\ db_open' = TRUE
    /\ table_exists' = TRUE
    /\ store' = create_table(table_exists, store).rows
    /\ trace' = Append(trace, Ev("open_db", create_table(table_exists, store).res))
    /\ pc' = create_table(table_exists, store).pc
    /\ exit_code' = IF create_table(table_exists, store).pc \in Terminal
                    THEN ExitCode(create_table(table_exists, store).pc)
                    ELSE exit_code
    /\ UNCHANGED << runs, report_request_id, report_id, retry_count,
                    payload, idx, run_start_store, prev_run >>

\* _process_report lines 119-126: one call of mws_conn.get_report, then
\* ET.fromstring (ParseError is not caught) and root.findall('Message').
FetchReport ==
    /\ pc = "fetch"
    /\ \E out \in FetchOutcomes, p \in Payloads :
         /\ trace' = Append(trace, Ev("get_report", out))
         /\ pc' = AfterFetch(out)
         /\ payload' = IF out = "OK" THEN p ELSE << >>
         /\ exit_code' = IF AfterFetch(out) \in Terminal
                         THEN ExitCode(AfterFetch(out)) ELSE exit_code
    /\ idx' = 1
    /\ UNCHANGED << runs, report_request_id, report_id, retry_count, db_open,
                    table_exists, store, run_start_store, prev_run >>

\* _process_report lines 127-133: one iteration of the for loop.
ProcessMessage ==
    /\ pc = "persist"
    /\ idx <= Len(payload)
    /\ IF ExtractFails(payload[idx])
       THEN /\ trace' = Append(trace, Ev("extract", "MISSING"))
            /\ pc' = "crashed"
            /\ exit_code' = ExitCode("crashed")
            /\ UNCHANGED << store, idx >>
       ELSE \E out \in WriteOutcomes :
            /\ trace' = trace \o << Ev("extract", "OK"), Ev("write_to_db", out) >>
            /\ store' = write_to_db(store, Purchase(payload[idx]), out)
            /\ IF out = "OK"
               THEN /\ idx' = idx + 1
                    /\ UNCHANGED << pc, exit_code >>
               ELSE /\ pc' = "crashed"
                    /\ exit_code' = ExitCode("crashed")
                    /\ UNCHANGED idx
    /\ UNCHANGED << runs, report_request_id, report_id, retry_count, db_open,
                    table_exists, payload, run_start_store, prev_run >>

\* The for loop is exhausted: _process_report and main return.
ReturnFromMain ==
    /\ pc = "persist"
    /\ idx > Len(payload)
    /\ pc' = "done"
    /\ exit_code' = ExitCode("done")
    /\ UNCHANGED << runs, report_request_id, report_id, retry_count, db_open,
                    table_exists, store, payload, idx, trace, run_start_store,
                    prev_run >>

Next ==
    \/ NewRun
    \/ BuildMws
    \/ RequestReport
    \/ PollForReport
    \/ OpenDb
    \/ FetchReport
    \/ ProcessMessage
    \/ ReturnFromMain

Spec == Init /\ [][Next]_vars

\* A started process runs on: every step of main is eventually taken.
FairSpec == Spec /\ WF_vars(BuildMws) /\ WF_vars(RequestReport)
                 /\ WF_vars(PollForReport) /\ WF_vars(OpenDb)
                 /\ WF_vars(FetchReport) /\ WF_vars(ProcessMessage)
                 /\ WF_vars(ReturnFromMain)

(* ------------------------------ typing --------------------------------- *)
TypeOK ==
    /\ pc \in {"main", "request", "poll", "open_db", "fetch", "persist"} \cup Terminal
    /\ runs \in 1..MaxRuns
    /\ exit_code \in {0, 1}
    /\ retry_count \in 0..MaxPolls
    /\ db_open \in BOOLEAN
    /\ table_exists \in BOOLEAN
    /\ payload \in Payloads
    /\ idx \in 1..(MaxMsgs + 1)

(* ------------------------- derived observations ------------------------ *)
IsStatusCall(e) == e.op = "get_report_request_list"

\* The status calls of the running invocation, in call order.
StatusLog == SelectSeq(trace, IsStatusCall)

SameKey(r1, r2) == r1.order_id = r2.order_id /\ r1.sku = r2.sku

HasMalformed(p) == \E i \in DOMAIN p : ExtractFails(p[i])

(* ------------------------------- claims -------------------------------- *)

\* C1: persisting the same sequence of purchase records in two successive
\* runs leaves the store after the second run equal to the store after the
\* first (no duplicated row, same row count).
C1_UpsertIdempotent ==
    (pc = "done" /\ prev_run.valid /\ prev_run.payload = payload)
        => store = prev_run.store

\* C2: in every reachable state no two rows of the store share the same
\* (order_id, sku) pair.
C2_UniqueKey ==
    \A i, j \in DOMAIN store : SameKey(store[i], store[j]) => i = j

\* C3: when every status call fails with a transient service error the
\* poller makes exactly 4 status calls, each retry preceded by a wait, and
\* then fails: never a 5th call, never a failure before the 4th.
C3_RetryCeiling ==
    (StatusLog # << >> /\ \A i \in DOMAIN StatusLog : StatusLog[i].res = "TRANSIENT")
        => /\ Len(StatusLog) <= 4
           /\ pc \in Terminal => (Len(StatusLog) = 4 /\ Count("sleep") = 3)

\* C4: on an error-free status sequence the poller keeps polling while the
\* status is SUBMITTED or IN_PROGRESS, and returns a report id only from a
\* response whose status is DONE.
C4_PollsUntilDone ==
    /\ (StatusLog # << >> /\ Last(StatusLog).res \in {"SUBMITTED", "IN_PROGRESS"})
           => (pc = "poll" /\ report_id = None)
    /\ (report_id # None) => Last(StatusLog).res = "DONE"

\* C5: the polling loop terminates whatever the remote service answers: a
\* run that is polling eventually leaves the poll stage, with a report id
\* or in a terminal failure.
C5_PollTerminates ==
    (pc = "poll") ~> (pc \in {"open_db", "exited", "crashed"})

C5_Witness ==
    /\ pc = "crashed"
    /\ StatusLog # << >>
    /\ Last(StatusLog).res \in {"SUBMITTED", "IN_PROGRESS"}

\* C6: when a status call returns CANCELLED the poller ends in a terminal
\* failure: no report id is returned and the database is not opened, no
\* report is fetched, parsed or persisted.
C6_CancelledFails ==
    (StatusLog # << >> /\ Last(StatusLog).res = "CANCELLED")
        => /\ pc \in Terminal /\ pc # "done"
           /\ report_id = None
           /\ Count("open_db") = 0
           /\ Count("get_report") = 0
           /\ Count("extract") = 0
           /\ Count("write_to_db") = 0
           /\ store = run_start_store

C6_Witness ==
    /\ StatusLog # << >>
    /\ Last(StatusLog).res = "CANCELLED"
    /\ pc = "crashed"

\* C7: when the report request fails with an authentication error the run
\* ends at once: one request call, no status call, no wait, no fetch, no
\* parse and no store write.
C7_AuthShortCircuit ==
    (CountRes("request_report", "AUTH") > 0)
        => /\ pc \in Terminal /\ pc # "done"
           /\ Count("request_report") = 1
           /\ Count("get_report_request_list") = 0
           /\ Count("sleep") = 0
           /\ Count("open_db") = 0
           /\ Count("get_report") = 0
           /\ Count("extract") = 0
           /\ Count("write_to_db") = 0
           /\ store = run_start_store

C7_Witness ==
    /\ CountRes("request_report", "AUTH") = 1
    /\ pc = "exited"

\* C8: the exit code of an ended run is 0 exactly when the run succeeded in
\* full; every terminal failure exits with a non-zero code.
C8_ExitCode ==
    pc \in Terminal => (exit_code = 0 <=> pc = "done")

\* C9: when a message of the payload lacks a required field the run fails
\* and the store is what it was before the run.
C9_MalformedNoPersist ==
    (pc \in {"persist"} \cup Terminal /\ HasMalformed(payload))
        => /\ store = run_start_store
           /\ pc # "done"

\* C10: when a storage fault occurs while writing a record of the batch the
\* store after the failure equals the store before the batch started.
C10_AtomicBatch ==
    (pc = "crashed" /\ trace # << >> /\ Last(trace).op = "write_to_db")
        => store = run_start_store

(* --------------------- observations of the stages ---------------------- *)
\* The stage a call belongs to: request 1, poll 2, fetch 3, parse 4,
\* persist 5; 0 for the calls that are no stage of the pipeline.
StageRank(op) ==
    CASE op = "request_report" -> 1
      [] op = "get_report_request_list" -> 2
      [] op = "sleep" -> 2
      [] op = "get_report" -> 3
      [] op = "extract" -> 4
      [] op = "write_to_db" -> 5
      [] OTHER -> 0

Failed(e) ==
    e.res \in MWSErrors \cup {"BAD_XML", "MISSING", "FAULT_EXECUTE", "FAULT_COMMIT"}

DistinctKeys(p) == \A i, j \in DOMAIN p : SameKey(p[i], p[j]) => i = j

\* The rows of the first n messages of the payload, in document order.
Rows(p, n) == [ i \in 1..n |-> Purchase(p[i]) ]

\* C11: no terminal state of a run has the storage connection still open.
C11_ConnectionClosed ==
    pc \in Terminal => ~db_open

\* C12: the stages run strictly in the order request, poll, fetch, parse,
\* persist; after a failure no later stage runs (only the poller retries
\* its own call) and the request is made once.
C12_StageOrder ==
    /\ \A i, j \in DOMAIN trace :
         (i < j /\ StageRank(trace[i].op) > 0 /\ StageRank(trace[j].op) > 0)
             => StageRank(trace[i].op) <= StageRank(trace[j].op)
    /\ \A i, j \in DOMAIN trace :
         (i < j /\ Failed(trace[i]) /\ StageRank(trace[j].op) > 0)
             => (StageRank(trace[i].op) = 2 /\ StageRank(trace[j].op) = 2)
    /\ Count("request_report") <= 1

\* C13: after a fully successful run on an empty store with n well-formed
\* messages of pairwise distinct (order id, SKU), the store holds exactly
\* the n rows of the messages, in document order.
C13_RowsInDocumentOrder ==
    (pc = "done" /\ run_start_store = << >> /\ DistinctKeys(payload))
        => /\ Len(store) = Len(payload)
           /\ store = Rows(payload, Len(payload))

C13_Witness ==
    /\ pc = "done"
    /\ run_start_store = << >>
    /\ DistinctKeys(payload)
    /\ Len(payload) = 2
    /\ Len(store) = 2

\* C14: opening the store succeeds whether or not the purchases table
\* exists, leaves the rows unchanged, and creates the table only when it is
\* absent.
C14_SchemaIdempotent ==
    [][ (pc = "open_db" /\ pc' # "open_db")
          => /\ pc' = "fetch"
             /\ store' = store
             /\ table_exists'
             /\ Last(trace') = Ev("open_db", IF table_exists THEN "EXISTS" ELSE "CREATED") ]_vars

C14_Witness ==
    /\ pc = "fetch"
    /\ Last(trace) = Ev("open_db", "EXISTS")
    /\ store # << >>

\* C15: a status call that fails with an authentication error is the last
\* call of the poller: the run ends at once, without a wait.
C15_AuthPollFails ==
    \A i \in DOMAIN StatusLog :
        StatusLog[i].res = "AUTH"
            => /\ i = Len(StatusLog)
               /\ pc = "exited"
               /\ Last(trace) = Ev("get_report_request_list", "AUTH")
               /\ Count("sleep") = 0

C15_Witness ==
    /\ StatusLog # << >>
    /\ Last(StatusLog).res = "AUTH"
    /\ pc = "exited"

\* C16: the request stage and the fetch stage make one remote call each and
\* never retry: a failed request or fetch is the last call of the run, and
\* no wait happens.
C16_SingleCall ==
    /\ Count("request_report") <= 1
    /\ Count("get_report") <= 1
    /\ pc \in {"poll", "open_db", "fetch", "persist", "done"}
           => Count("request_report") = 1
    /\ pc \in {"persist", "done"} => Count("get_report") = 1
    /\ \A op \in {"request_report", "get_report"}, out \in MWSErrors :
           CountRes(op, out) > 0
               => /\ pc = "exited"
                  /\ Last(trace) = Ev(op, out)
                  /\ Count("sleep") = 0

C16_Witness ==
    /\ pc = "exited"
    /\ Last(trace) = Ev("get_report", "TRANSIENT")
    /\ Count("request_report") = 1

\* C17: every status call but the last one of a run raised, and the poller
\* is no longer polling once a status call has returned without raising.
C17_OneSuccessfulStatus ==
    /\ \A i \in DOMAIN StatusLog :
           i < Len(StatusLog) => StatusLog[i].res \in MWSErrors
    /\ (StatusLog # << >> /\ Last(StatusLog).res \in Statuses) => pc # "poll"

C17_Witness ==
    /\ StatusLog # << >>
    /\ Last(StatusLog).res = "DONE"
    /\ pc = "open_db"

\* C18: as long as the poller has not returned a report id, no step of the
\* run touches local storage: the database is not open, the table is not
\* created and no row is written.
C18_NoStorageBeforeReportId ==
    [][ report_id' = None
          => /\ ~db_open'
             /\ table_exists' = table_exists
             /\ store' = store ]_vars

C18_Witness ==
    /\ pc \in {"exited", "crashed"}
    /\ Count("get_report_request_list") = 1
    /\ report_id = None
    /\ ~table_exists

\* C19: the rows written by the run are at every moment the rows of the
\* first idx-1 messages of the payload, in document order, appended to the
\* rows the store held when the run started.
C19_PrefixInOrder ==
    /\ idx - 1 <= Len(payload)
    /\ store = run_start_store \o Rows(payload, idx - 1)

C19_Witness ==
    /\ pc = "persist"
    /\ idx = 2
    /\ Len(payload) >= 2
    /\ run_start_store # << >>

=============================================================================
